---------------------------- MODULE Spec2Model ----------------------------
(***************************************************************************)
(* Model of src/src/circuit/src/context.rs: the layout ledger (Records),   *)
(* its layout requests one_line / one_line_with_last /                     *)
(* assign_single_range_value / assign_range_value, and the reference       *)
(* counted context hierarchy (IntegerContext, NativeScalarEccContext,      *)
(* GeneralScalarEccContext) with its conversions back to a plain Context.  *)
(*                                                                         *)
(* Conventions.                                                            *)
(*   - A field element N is a natural number (the field is far larger than *)
(*     every number used here, so N::from, N::one and N::zero are the      *)
(*     numbers themselves).                                                *)
(*   - Option<T>: None is << >>, Some(x) is <<x>>.                         *)
(*   - A Vec is a function on 0 .. len-1, an array [T; n] a function on    *)
(*     0 .. n-1, so that indices are the source's indices.                 *)
(*   - A tuple (a, b) is <<a, b>>: t[1] is the source's t.0, t[2] is t.1.  *)
(*   - A panic (a failed assert!, an index out of bounds, an unwrap of     *)
(*     None / Err, an arithmetic overflow with overflow checks on) stops   *)
(*     the operation where it happens: what was written before it stays    *)
(*     written, and fault records the panic.  Nothing runs after a panic.  *)
(***************************************************************************)
EXTENDS Integers, Sequences, FiniteSets, TLC

(***************************************************************************)
(* Program constants.  VAR_COLUMNS, MUL_COLUMNS, FIXED_COLUMNS, MAX_CHUNKS *)
(* and COMMON_RANGE_BITS are imported by context.rs (lines 7-8) from       *)
(* circuit_utils, whose files are not part of the sources at hand: the     *)
(* model fixes small values for them, with FIXED_COLUMNS the sum the lane  *)
(* mapping of _assign_to_base_chip (lines 166-174) implies.                *)
(***************************************************************************)
VAR_COLUMNS == 2

MUL_COLUMNS == 1

FIXED_COLUMNS == VAR_COLUMNS + MUL_COLUMNS + 2

MAX_CHUNKS == 2

COMMON_RANGE_BITS == 8

\* const EXTEND_SIZE of one_line (line 283).
EXTEND_SIZE == 16

\* const EXTEND_SIZE of ensure_range_record_size (line 357).
RANGE_EXTEND_SIZE == 1024

(***************************************************************************)
(* Bounds of the model.                                                    *)
(***************************************************************************)
\* Low steps of the requests: 0 .. MaxStep (plus one step of the next block).
MaxStep == 1

\* Requests per run of SpecBase.
MaxCalls == 3

\* Requests per run of SpecLine, of SpecRange and of SpecMat.
MaxLayoutCalls == 2

\* Slots that can hold a handle to the Shared Context.
MaxHolders == 4

\* Clones of the Context per run of SpecLife.
MaxClones == 1

\* Runs of assign_all per run of SpecLife.
MaxRuns == 2

\* Field elements used as values.  The code never computes with a value or
\* a coefficient, it only stores them: two values tell equal from unequal.
Vals == {1, 2}

None == << >>

Some(x) == <<x>>

IsSome(o) == o # None

Unwrap(o) == o[1]

OptVals == {None} \cup {Some(v) : v \in Vals}

\* Indices of a sequence taken as a Vec: 0 .. len-1.
VecLen(vec) == Cardinality(DOMAIN vec)

EmptyVec == [i \in {} |-> None]

\* Vec::resize(to_len, fill): truncates or pads with fill.
Resize(vec, to_len, fill) ==
    [i \in 0 .. (to_len - 1) |-> IF i \in DOMAIN vec THEN vec[i] ELSE fill]

\* (offset + size) & !(size - 1), size a power of two.
AlignUp(offset, size) == ((offset + size) \div size) * size

Max(S) == CHOOSE x \in S : \A y \in S : y <= x

(***************************************************************************)
(* crate::assign: Chip, Cell, AssignedValue, ValueSchema.                  *)
(***************************************************************************)
BaseChip == "BaseChip"

RangeChip == "RangeChip"

\* Cell::new(region, col, row)
CellNew(region, col, row) == [region |-> region, col |-> col, row |-> row]

\* AssignedValue::new(region, col, row, v)
AssignedValueNew(region, col, row, v) ==
    [cell |-> CellNew(region, col, row), value |-> v]

\* ValueSchema::Unassigned(v)
Unassigned(v) == [cell |-> None, value |-> v]

\* ValueSchema::Assigned(&AssignedValue)
Assigned(av) == [cell |-> Some(av.cell), value |-> av.value]

(***************************************************************************)
(* Records (lines 116-127).  A running operation is a pair                 *)
(* [r |-> Records, ok |-> BOOLEAN]: ok turns FALSE at a panic and every    *)
(* later statement of the operation is skipped.                            *)
(***************************************************************************)
BaseAdvDefault == [c \in 0 .. (VAR_COLUMNS - 1) |-> <<None, FALSE>>]

BaseFixDefault == [c \in 0 .. (FIXED_COLUMNS - 1) |-> None]

RangeAdvDefault == <<None, FALSE>>

RangeFixDefault == [c \in 0 .. 1 |-> None]

\* Records::default()
RecordsDefault ==
    [base_adv_record  |-> EmptyVec,
     base_fix_record  |-> EmptyVec,
     base_height      |-> 0,
     range_adv_record |-> EmptyVec,
     range_fix_record |-> EmptyVec,
     range_height     |-> 0,
     permutations     |-> << >>]

Running(r) == [r |-> r, ok |-> TRUE]

Panic(r) == [r |-> r, ok |-> FALSE]

\* self.base_adv_record[row][col].1 = true
SetBaseFlag(m, row, col) ==
    IF ~m.ok THEN m
    ELSE IF row \notin DOMAIN m.r.base_adv_record \/ col \notin 0 .. (VAR_COLUMNS - 1)
    THEN Panic(m.r)
    ELSE Running([m.r EXCEPT !.base_adv_record[row][col][2] = TRUE])

\* self.range_adv_record[row].1 = true
SetRangeFlag(m, row) ==
    IF ~m.ok THEN m
    ELSE IF row \notin DOMAIN m.r.range_adv_record
    THEN Panic(m.r)
    ELSE Running([m.r EXCEPT !.range_adv_record[row][2] = TRUE])

\* A write of the whole entry (Some(v), false) in place of its .0 field.
SetBaseValueFresh(m, row, col, v) ==
    IF ~m.ok THEN m
    ELSE IF row \notin DOMAIN m.r.base_adv_record \/ col \notin 0 .. (VAR_COLUMNS - 1)
    THEN Panic(m.r)
    ELSE Running([m.r EXCEPT !.base_adv_record[row][col] = <<Some(v), FALSE>>])

\* self.base_adv_record[row][col].0 = Some(v)
SetBaseValue(m, row, col, v) ==
    IF ~m.ok THEN m
    ELSE IF row \notin DOMAIN m.r.base_adv_record \/ col \notin 0 .. (VAR_COLUMNS - 1)
    THEN Panic(m.r)
    ELSE Running([m.r EXCEPT !.base_adv_record[row][col][1] = Some(v)])

\* self.base_fix_record[row][col] = opt
SetBaseFix(m, row, col, opt) ==
    IF ~m.ok THEN m
    ELSE IF row \notin DOMAIN m.r.base_fix_record \/ col \notin 0 .. (FIXED_COLUMNS - 1)
    THEN Panic(m.r)
    ELSE Running([m.r EXCEPT !.base_fix_record[row][col] = opt])

\* self.range_adv_record[row].0 = Some(v)
SetRangeValue(m, row, v) ==
    IF ~m.ok THEN m
    ELSE IF row \notin DOMAIN m.r.range_adv_record
    THEN Panic(m.r)
    ELSE Running([m.r EXCEPT !.range_adv_record[row][1] = Some(v)])

\* self.range_fix_record[row][col] = Some(v)
SetRangeFix(m, row, col, v) ==
    IF ~m.ok THEN m
    ELSE IF row \notin DOMAIN m.r.range_fix_record \/ col \notin 0 .. 1
    THEN Panic(m.r)
    ELSE Running([m.r EXCEPT !.range_fix_record[row][col] = Some(v)])

\* A push that records nothing.
PushPermutationDropped(m, left, right) == m

\* self.permutations.push((left, right))
PushPermutation(m, left, right) ==
    IF ~m.ok THEN m
    ELSE Running([m.r EXCEPT !.permutations = Append(@, <<left, right>>)])

\* An enable_permute that flags base-unit cells only.
enable_permute_base_only(m, cell) ==
    IF cell.region = BaseChip
    THEN SetBaseFlag(m, cell.row, cell.col)
    ELSE m

\* Records::enable_permute (lines 267-272)
enable_permute(m, cell) ==
    IF cell.region = BaseChip
    THEN SetBaseFlag(m, cell.row, cell.col)
    ELSE SetRangeFlag(m, cell.row)


(***************************************************************************)
(* Records::one_line (lines 274-324) and one_line_with_last (326-354).     *)
(***************************************************************************)
\* GrowBase with fresh vectors of the new length in place of resize.
GrowBaseFresh(r, offset) ==
    IF offset >= VecLen(r.base_adv_record)
    THEN LET to_len == AlignUp(offset, EXTEND_SIZE)
         IN [r EXCEPT
               !.base_adv_record = Resize(EmptyVec, to_len, BaseAdvDefault),
               !.base_fix_record = Resize(EmptyVec, to_len, BaseFixDefault)]
    ELSE r

\* Lines 285-290: grow both base vectors to the next block boundary.
GrowBase(r, offset) ==
    IF offset >= VecLen(r.base_adv_record)
    THEN LET to_len == AlignUp(offset, EXTEND_SIZE)
         IN [r EXCEPT
               !.base_adv_record = Resize(@, to_len, BaseAdvDefault),
               !.base_fix_record = Resize(@, to_len, BaseFixDefault)]
    ELSE r

\* RaiseBaseHeight without its test: the height follows the last step.
RaiseBaseHeightAlways(r, offset) == [r EXCEPT !.base_height = offset + 1]

\* Lines 292-294.
RaiseBaseHeight(r, offset) ==
    IF offset >= r.base_height THEN [r EXCEPT !.base_height = offset + 1] ELSE r

\* The body of the loop of lines 296-310, and lines 340-353 for the tail:
\* lane i of row offset takes the schema base with coefficient coeff.
PlacePair(m, offset, i, base, coeff) ==
    LET m1 == IF IsSome(base.cell)
              THEN LET cell == Unwrap(base.cell)
                       idx  == CellNew(BaseChip, i, offset)
                   IN PushPermutation(
                          enable_permute(SetBaseFlag(m, offset, i), cell),
                          cell, idx)
              ELSE m
        m2 == SetBaseFix(m1, offset, i, Some(coeff))
    IN  SetBaseValue(m2, offset, i, base.value)

\* Lines 296-310: pairs[i + 1] is the source's i-th pair, <<schema, coeff>>.
RECURSIVE PlacePairs(_, _, _, _)
PlacePairs(m, offset, pairs, i) ==
    IF i >= Len(pairs) THEN m
    ELSE PlacePairs(PlacePair(m, offset, i, pairs[i + 1][1], pairs[i + 1][2]),
                    offset, pairs, i + 1)

\* Lines 313-315.
RECURSIVE PlaceMulCoeffs(_, _, _, _)
PlaceMulCoeffs(m, offset, mul_coeffs, i) ==
    IF i >= Len(mul_coeffs) THEN m
    ELSE PlaceMulCoeffs(
             SetBaseFix(m, offset, VAR_COLUMNS + i, Some(mul_coeffs[i + 1])),
             offset, mul_coeffs, i + 1)

\* PlaceNextAndConstant with the two lanes taken for one another.
PlaceNextAndConstantSwapped(m, offset, next, constant) ==
    LET m1 == IF IsSome(next)
              THEN SetBaseFix(m, offset, VAR_COLUMNS + MUL_COLUMNS + 1, next)
              ELSE m
    IN  IF IsSome(constant)
        THEN SetBaseFix(m1, offset, VAR_COLUMNS + MUL_COLUMNS, constant)
        ELSE m1

\* Lines 317-323.
PlaceNextAndConstant(m, offset, next, constant) ==
    LET m1 == IF IsSome(next)
              THEN SetBaseFix(m, offset, VAR_COLUMNS + MUL_COLUMNS, next)
              ELSE m
    IN  IF IsSome(constant)
        THEN SetBaseFix(m1, offset, VAR_COLUMNS + MUL_COLUMNS + 1, constant)
        ELSE m1

\* one_line with its lane-count test made after the storage and the height
\* were prepared.
one_line_late_assert(r, offset, base_coeff_pairs, constant, mul_coeffs, next) ==
    LET r1 == RaiseBaseHeight(GrowBase(r, offset), offset)
    IN  IF ~(Len(base_coeff_pairs) <= VAR_COLUMNS)
        THEN Panic(r1)
        ELSE PlaceNextAndConstant(
                 PlaceMulCoeffs(PlacePairs(Running(r1), offset, base_coeff_pairs, 0),
                                offset, mul_coeffs, 0),
                 offset, next, constant)

one_line(r, offset, base_coeff_pairs, constant, mul_coeffs, next) ==
    IF ~(Len(base_coeff_pairs) <= VAR_COLUMNS)
    THEN Panic(r)
    ELSE LET r1 == RaiseBaseHeight(GrowBase(r, offset), offset)
             m2 == PlacePairs(Running(r1), offset, base_coeff_pairs, 0)
             m3 == PlaceMulCoeffs(m2, offset, mul_coeffs, 0)
         IN  PlaceNextAndConstant(m3, offset, next, constant)

one_line_with_last(r, offset, base_coeff_pairs, tail, constant, mul_coeffs, next) ==
    IF ~(Len(base_coeff_pairs) <= VAR_COLUMNS - 1)
    THEN Panic(r)
    ELSE PlacePair(one_line(r, offset, base_coeff_pairs, constant, mul_coeffs, next),
                   offset, VAR_COLUMNS - 1, tail[1], tail[2])

(***************************************************************************)
(* The range unit (lines 356-408).                                         *)
(***************************************************************************)
\* ensure_range_record_size without the test on the height.
ensure_range_record_size_always(r, offset) ==
    LET r1 == IF offset >= VecLen(r.range_adv_record)
              THEN LET to_len == AlignUp(offset, RANGE_EXTEND_SIZE)
                   IN [r EXCEPT
                         !.range_adv_record = Resize(@, to_len, RangeAdvDefault),
                         !.range_fix_record = Resize(@, to_len, RangeFixDefault)]
              ELSE r
    IN  [r1 EXCEPT !.range_height = offset + 1]

\* Lines 356-368.
ensure_range_record_size(r, offset) ==
    LET r1 == IF offset >= VecLen(r.range_adv_record)
              THEN LET to_len == AlignUp(offset, RANGE_EXTEND_SIZE)
                   IN [r EXCEPT
                         !.range_adv_record = Resize(@, to_len, RangeAdvDefault),
                         !.range_fix_record = Resize(@, to_len, RangeFixDefault)]
              ELSE r
    IN  IF offset >= r1.range_height
        THEN [r1 EXCEPT !.range_height = offset + 1]
        ELSE r1

\* A single value whose class marker also lands on the following row.
assign_single_range_value_spilling(r, offset, v, leading_bits) ==
    LET r1 == ensure_range_record_size(r, offset + 2)
        m2 == SetRangeFix(Running(r1), offset, 1, leading_bits)
        m3 == SetRangeFix(m2, offset + 1, 1, leading_bits)
        m4 == SetRangeValue(m3, offset, v)
    IN  [r |-> m4.r, ok |-> m4.ok,
         ret |-> IF m4.ok THEN Some(AssignedValueNew(RangeChip, 0, offset, v))
                 ELSE None]

\* Lines 370-382.  The result is the ledger with the handle returned.
assign_single_range_value(r, offset, v, leading_bits) ==
    LET r1 == ensure_range_record_size(r, offset + 1)
        m2 == SetRangeFix(Running(r1), offset, 1, leading_bits)
        m3 == SetRangeValue(m2, offset, v)
    IN  [r |-> m3.r, ok |-> m3.ok,
         ret |-> IF m3.ok THEN Some(AssignedValueNew(RangeChip, 0, offset, v))
                 ELSE None]

\* for i in 0..n { self.range_fix_record[offset + 1 + i][1] = Some(COMMON) }
\* (lines 399-401), from its i-th round on.
RECURSIVE PlaceCommonClasses(_, _, _, _)
PlaceCommonClasses(m, offset, n, i) ==
    IF i >= n THEN m
    ELSE PlaceCommonClasses(SetRangeFix(m, offset + 1 + i, 1, COMMON_RANGE_BITS),
                            offset, n, i + 1)

\* The same loop when chunks is empty and the build has no overflow checks:
\* chunks.len() - 1 wraps to usize::MAX, which no storage reaches, so the
\* loop writes every row from offset + 1 to the end of the storage and then
\* indexes the row after the last one, which panics.
PlaceCommonClassesWrapped(m, offset) ==
    IF ~m.ok THEN m
    ELSE LET fix == m.r.range_fix_record
         IN  Panic([m.r EXCEPT !.range_fix_record =
                      [row \in DOMAIN fix |->
                         IF row >= offset + 1
                         THEN [fix[row] EXCEPT ![1] = Some(COMMON_RANGE_BITS)]
                         ELSE fix[row]]])

\* PlaceChunks that starts at the composite value's row.
RECURSIVE PlaceChunksAtStep(_, _, _, _)
PlaceChunksAtStep(m, offset, chunks, i) ==
    IF i >= Len(chunks) THEN m
    ELSE PlaceChunksAtStep(SetRangeValue(m, offset + i, chunks[i + 1]),
                           offset, chunks, i + 1)

\* for i in 0..chunks.len() { self.range_adv_record[offset + 1 + i].0 = ... }
\* (lines 404-406).
RECURSIVE PlaceChunks(_, _, _, _)
PlaceChunks(m, offset, chunks, i) ==
    IF i >= Len(chunks) THEN m
    ELSE PlaceChunks(SetRangeValue(m, offset + 1 + i, chunks[i + 1]),
                     offset, chunks, i + 1)

\* assign_range_value that cuts a list of too many chunks to MAX_CHUNKS
\* in place of refusing it.
assign_range_value_truncating(r, offset, v, chunks, leading_bits, overflow_checks) ==
    LET kept == IF Len(chunks) <= MAX_CHUNKS THEN chunks
                ELSE SubSeq(chunks, 1, MAX_CHUNKS)
        r1 == ensure_range_record_size(r, offset + 1 + MAX_CHUNKS)
        m2 == SetRangeFix(Running(r1), offset, 0, 1)
        m3 == SetRangeValue(m2, offset, v)
        m4 == SetRangeFix(m3, offset + MAX_CHUNKS, 0, 0)
        m5 == IF Len(kept) = 0
              THEN IF overflow_checks
                   THEN Panic(m4.r)
                   ELSE PlaceCommonClassesWrapped(m4, offset)
              ELSE PlaceCommonClasses(m4, offset, Len(kept) - 1, 0)
        m6 == SetRangeFix(m5, offset + Len(kept), 1, leading_bits)
        m7 == PlaceChunks(m6, offset, kept, 0)
    IN  [r |-> m7.r, ok |-> m7.ok,
         ret |-> IF m7.ok THEN Some(AssignedValueNew(RangeChip, 0, offset, v))
                 ELSE None]

\* Lines 384-408.  overflow_checks: whether the build panics on arithmetic
\* overflow (a debug build) or wraps (a release build), which decides what
\* chunks.len() - 1 of line 399 does when chunks is empty.
assign_range_value(r, offset, v, chunks, leading_bits, overflow_checks) ==
    IF ~(Len(chunks) <= MAX_CHUNKS)
    THEN [r |-> r, ok |-> FALSE, ret |-> None]
    ELSE LET r1 == ensure_range_record_size(r, offset + 1 + MAX_CHUNKS)
             m2 == SetRangeFix(Running(r1), offset, 0, 1)
             m3 == SetRangeValue(m2, offset, v)
             m4 == SetRangeFix(m3, offset + MAX_CHUNKS, 0, 0)
             m5 == IF Len(chunks) = 0
                   THEN IF overflow_checks
                        THEN Panic(m4.r)
                        ELSE PlaceCommonClassesWrapped(m4, offset)
                   ELSE PlaceCommonClasses(m4, offset, Len(chunks) - 1, 0)
             m6 == SetRangeFix(m5, offset + Len(chunks), 1, leading_bits)
             m7 == PlaceChunks(m6, offset, chunks, 0)
         IN  [r |-> m7.r, ok |-> m7.ok,
              ret |-> IF m7.ok THEN Some(AssignedValueNew(RangeChip, 0, offset, v))
                      ELSE None]

(***************************************************************************)
(* The state.                                                              *)
(*   records          the ledger of the Shared Context (Context.records)   *)
(*   fault            a panic has happened: the program has stopped        *)
(*   last             the last request, its arguments and what it returned *)
(*   ncalls           requests made so far                                 *)
(*   base_steps       steps of the base-unit requests that passed the      *)
(*                    lane-count assertion                                 *)
(*   range_tops       the highest row each range-unit request that passed  *)
(*                    the chunk-count assertion lays out                   *)
(*   consistent       every reference so far carried the value stored at   *)
(*                    the referenced cell when the request was made        *)
(*   holders, strong, context   the handles to the Shared Context          *)
(*   region           the calls the Region (the proof system) has accepted *)
(*   outcome          how the last assign_all ended                        *)
(*   cells            the table the last assign_all returned, if it did    *)
(*   runs             assign_all runs started so far                       *)
(*   clones           clones of the Context (handles to the same ledger)   *)
(***************************************************************************)
VARIABLES records, fault, last, ncalls, base_steps, range_tops, consistent,
          holders, strong, context, region, outcome, cells, runs, clones

vars == <<records, fault, last, ncalls, base_steps, range_tops, consistent,
          holders, strong, context, region, outcome, cells, runs, clones>>

matVars == <<region, outcome, cells, runs, clones>>

ledgerVars == <<records, fault, last, ncalls, base_steps, range_tops, consistent>>

handleVars == <<holders, strong, context>>

\* The value recorded at a cell, None when there is none.
StoredAt(r, cell) ==
    IF cell.region = BaseChip
    THEN IF cell.row \in DOMAIN r.base_adv_record /\ cell.col \in 0 .. (VAR_COLUMNS - 1)
         THEN r.base_adv_record[cell.row][cell.col][1]
         ELSE None
    ELSE IF cell.row \in DOMAIN r.range_adv_record /\ cell.col = 0
         THEN r.range_adv_record[cell.row][1]
         ELSE None

\* ValueSchema's invariant: a reference carries the value stored at its cell.
SchemaConsistent(r, schema) ==
    IsSome(schema.cell) => StoredAt(r, Unwrap(schema.cell)) = Some(schema.value)

NoRequest ==
    [op |-> "none", offset |-> 0, pairs |-> << >>, tail |-> None,
     constant |-> None, mul_coeffs |-> << >>, next |-> None,
     v |-> 0, chunks |-> << >>, leading_bits |-> 0, ret |-> None,
     kind |-> "none", others |-> 0]

OneLine(offset, pairs, constant, mul_coeffs, next) ==
    /\ ~fault
    /\ LET m == one_line(records, offset, pairs, constant, mul_coeffs, next)
       IN  /\ records' = m.r
           /\ fault' = ~m.ok
    /\ last' = [NoRequest EXCEPT !.op = "one_line", !.offset = offset,
                  !.pairs = pairs, !.constant = constant,
                  !.mul_coeffs = mul_coeffs, !.next = next]
    /\ ncalls' = ncalls + 1
    /\ base_steps' = IF Len(pairs) <= VAR_COLUMNS
                     THEN base_steps \cup {offset} ELSE base_steps
    /\ consistent' = (consistent /\
                        \A i \in 1 .. Len(pairs) : SchemaConsistent(records, pairs[i][1]))
    /\ UNCHANGED <<range_tops, holders, strong, context>>
    /\ UNCHANGED matVars

OneLineWithLast(offset, pairs, tail, constant, mul_coeffs, next) ==
    /\ ~fault
    /\ LET m == one_line_with_last(records, offset, pairs, tail, constant,
                                   mul_coeffs, next)
       IN  /\ records' = m.r
           /\ fault' = ~m.ok
    /\ last' = [NoRequest EXCEPT !.op = "one_line_with_last", !.offset = offset,
                  !.pairs = pairs, !.tail = Some(tail), !.constant = constant,
                  !.mul_coeffs = mul_coeffs, !.next = next]
    /\ ncalls' = ncalls + 1
    /\ base_steps' = IF Len(pairs) <= VAR_COLUMNS - 1
                     THEN base_steps \cup {offset} ELSE base_steps
    /\ consistent' = (/\ consistent
                      /\ \A i \in 1 .. Len(pairs) : SchemaConsistent(records, pairs[i][1])
                      /\ SchemaConsistent(records, tail[1]))
    /\ UNCHANGED <<range_tops, holders, strong, context>>
    /\ UNCHANGED matVars

AssignSingleRangeValue(offset, v, leading_bits) ==
    /\ ~fault
    /\ LET m == assign_single_range_value(records, offset, v, leading_bits)
       IN  /\ records' = m.r
           /\ fault' = ~m.ok
           /\ last' = [NoRequest EXCEPT !.op = "assign_single_range_value",
                         !.offset = offset, !.v = v,
                         !.leading_bits = leading_bits, !.ret = m.ret]
    /\ ncalls' = ncalls + 1
    /\ range_tops' = range_tops \cup {offset}
    /\ UNCHANGED <<base_steps, consistent, holders, strong, context>>
    /\ UNCHANGED matVars

\* overflow_checks is the build the program was made with.  It decides
\* nothing but how a request with no chunk panics, and nothing runs after
\* that panic, so it is drawn with the request.
AssignRangeValue(offset, v, chunks, leading_bits, overflow_checks) ==
    /\ ~fault
    /\ LET m == assign_range_value(records, offset, v, chunks, leading_bits,
                                   overflow_checks)
       IN  /\ records' = m.r
           /\ fault' = ~m.ok
           /\ last' = [NoRequest EXCEPT !.op = "assign_range_value",
                         !.offset = offset, !.v = v, !.chunks = chunks,
                         !.leading_bits = leading_bits, !.ret = m.ret]
    /\ ncalls' = ncalls + 1
    /\ range_tops' = IF Len(chunks) <= MAX_CHUNKS
                     THEN range_tops \cup {offset + MAX_CHUNKS} ELSE range_tops
    /\ UNCHANGED <<base_steps, consistent, holders, strong, context>>
    /\ UNCHANGED matVars

(***************************************************************************)
(* The context hierarchy (lines 52-114).  The Shared Context is an         *)
(* Rc<RefCell<Context>>; strong is its strong count.  Each slot of holders *)
(* is free or holds one owner of handles: "rc" a bare Rc kept by the       *)
(* creator, "integer" an IntegerContext (one Rc, its ctx), "native" a      *)
(* NativeScalarEccContext (the IntegerContext it wraps), "general" a       *)
(* GeneralScalarEccContext (three Rc: base_integer_ctx.ctx,                *)
(* scalar_integer_ctx.ctx and native_ctx).  context is "shared" while the  *)
(* Rc exists and "owned" once a conversion has unwrapped the plain         *)
(* Context out of it.                                                      *)
(***************************************************************************)
Holders == 1 .. MaxHolders

Wrappers == {"integer", "native", "general"}

\* The Rc handles an owner of the given kind holds (lines 54, 83, 93-95).
HandlesOf(kind) ==
    CASE kind = "free"    -> 0
      [] kind = "rc"      -> 1
      [] kind = "integer" -> 1
      [] kind = "native"  -> 1
      [] kind = "general" -> 3

RECURSIVE HandlesHeld(_, _)
HandlesHeld(hs, S) ==
    IF S = {} THEN 0
    ELSE LET h == CHOOSE x \in S : TRUE
         IN  HandlesOf(hs[h]) + HandlesHeld(hs, S \ {h})

\* Rc::try_unwrap(rc).unwrap() on an Rc whose strong count is cnt: the inner
\* value when rc is the only strong handle; otherwise try_unwrap gives the Rc
\* back as Err, unwrap panics and the unwinding drops that Rc.
RcTryUnwrapUnwrap(cnt) ==
    IF cnt = 1
    THEN [ok |-> TRUE, strong |-> 0]
    ELSE [ok |-> FALSE, strong |-> cnt - 1]

\* From<IntegerContext> for Context (lines 58-62).
IntegerIntoContext(cnt) == RcTryUnwrapUnwrap(cnt)

\* From<NativeScalarEccContext> for Context (lines 86-90): value.0.into().
NativeIntoContext(cnt) == IntegerIntoContext(cnt)

\* A conversion that unwraps native_ctx while the wrapper's two
\* IntegerContexts are still alive.
GeneralIntoContextKeepingIntegers(cnt) == RcTryUnwrapUnwrap(cnt)

\* From<GeneralScalarEccContext> for Context (lines 98-104): the two
\* IntegerContexts are dropped, then native_ctx is unwrapped.
GeneralIntoContext(cnt) ==
    LET after_base   == cnt - 1
        after_scalar == after_base - 1
    IN  RcTryUnwrapUnwrap(after_scalar)

IntoContextOf(kind, cnt) ==
    CASE kind = "integer" -> IntegerIntoContext(cnt)
      [] kind = "native"  -> NativeIntoContext(cnt)
      [] kind = "general" -> GeneralIntoContext(cnt)

\* ctx.clone() on a bare Rc (as in lines 109-110, or by the creator).
RcClone(h, h2) ==
    /\ ~fault /\ context = "shared"
    /\ holders[h] = "rc" /\ holders[h2] = "free"
    /\ holders' = [holders EXCEPT ![h2] = "rc"]
    /\ strong' = strong + 1
    /\ UNCHANGED context
    /\ UNCHANGED ledgerVars
    /\ UNCHANGED matVars

\* IntegerContext::new / new_with_options (lines 65-79): takes the Rc.
IntegerContextNew(h) ==
    /\ ~fault /\ context = "shared"
    /\ holders[h] = "rc"
    /\ holders' = [holders EXCEPT ![h] = "integer"]
    /\ UNCHANGED <<strong, context>>
    /\ UNCHANGED ledgerVars
    /\ UNCHANGED matVars

\* #[derive(Clone)] of IntegerContext (line 52): clones its Rc.
IntegerContextClone(h, h2) ==
    /\ ~fault /\ context = "shared"
    /\ holders[h] = "integer" /\ holders[h2] = "free"
    /\ holders' = [holders EXCEPT ![h2] = "integer"]
    /\ strong' = strong + 1
    /\ UNCHANGED context
    /\ UNCHANGED ledgerVars
    /\ UNCHANGED matVars

\* NativeScalarEccContext(integer_ctx) (lines 82-84): wraps an IntegerContext.
NativeScalarEccContextNew(h) ==
    /\ ~fault /\ context = "shared"
    /\ holders[h] = "integer"
    /\ holders' = [holders EXCEPT ![h] = "native"]
    /\ UNCHANGED <<strong, context>>
    /\ UNCHANGED ledgerVars
    /\ UNCHANGED matVars

\* GeneralScalarEccContext::new (lines 107-113): two clones and the Rc itself.
GeneralScalarEccContextNew(h) ==
    /\ ~fault /\ context = "shared"
    /\ holders[h] = "rc"
    /\ holders' = [holders EXCEPT ![h] = "general"]
    /\ strong' = strong + 2
    /\ UNCHANGED context
    /\ UNCHANGED ledgerVars
    /\ UNCHANGED matVars

\* An owner goes out of scope: its handles are dropped.
DropHandle(h) ==
    /\ ~fault /\ context = "shared"
    /\ holders[h] # "free"
    /\ holders' = [holders EXCEPT ![h] = "free"]
    /\ strong' = strong - HandlesOf(holders[h])
    /\ UNCHANGED context
    /\ UNCHANGED ledgerVars
    /\ UNCHANGED matVars

\* Context::from(wrapper) (lines 58-62, 86-90, 98-104).  The wrapper is
\* consumed either way; last.others is the number of handles the other
\* owners held when the conversion was asked for.
IntoContext(h) ==
    /\ ~fault /\ context = "shared"
    /\ holders[h] \in Wrappers
    /\ LET res == IntoContextOf(holders[h], strong)
       IN  /\ strong' = res.strong
           /\ fault' = ~res.ok
           /\ context' = IF res.ok THEN "owned" ELSE "shared"
           /\ last' = [NoRequest EXCEPT !.op = "into_context",
                         !.kind = holders[h],
                         !.others = HandlesHeld(holders, Holders \ {h}),
                         !.ret = IF res.ok THEN Some("Context") ELSE None]
    /\ holders' = [holders EXCEPT ![h] = "free"]
    /\ UNCHANGED <<records, ncalls, base_steps, range_tops, consistent>>
    /\ UNCHANGED matVars

(***************************************************************************)
(* Materialization (lines 130-265).  The Region is the proof system: each  *)
(* call it accepts is appended to region.  A call is                        *)
(* [call, column, row, value, other]: assign_advice and assign_fixed place *)
(* value at (column, row); constrain_equal declares the cells column       *)
(* (left) and other (right) equal.  A placed-cell handle (AssignedCell) is *)
(* [unit, col, row, value].                                                *)
(***************************************************************************)
Min(a, b) == IF a <= b THEN a ELSE b

\* left.region as usize (lines 240, 244; cells = vec![base_cells, range_cells]).
ChipIndex(chip) == IF chip = BaseChip THEN 0 ELSE 1

AssignAdvice(column, row, v) ==
    [call |-> "assign_advice", column |-> column, row |-> row,
     value |-> Some(v), other |-> None]

AssignFixed(column, row, v) ==
    [call |-> "assign_fixed", column |-> column, row |-> row,
     value |-> Some(v), other |-> None]

ConstrainEqual(left, right) ==
    [call |-> "constrain_equal", column |-> left, row |-> 0,
     value |-> None, other |-> Some(right)]

PlacedCell(chip, col, row, v) == [unit |-> chip, col |-> col, row |-> row, value |-> v]

\* The column of base_chip.config a fixed lane goes to (lines 166-174).
BaseFixedColumn(col) ==
    IF col < VAR_COLUMNS THEN <<"coeff", col>>
    ELSE IF col - VAR_COLUMNS < MUL_COLUMNS THEN <<"mul_coeff", col - VAR_COLUMNS>>
    ELSE IF col - VAR_COLUMNS - MUL_COLUMNS = 0 THEN <<"next_coeff", 0>>
    ELSE <<"constant", 0>>

\* (row, col) for row < rows, col < cols, in the order of the nested loops.
Slots(rows, cols) ==
    [k \in 1 .. (rows * cols) |-> <<(k - 1) \div cols, (k - 1) % cols>>]

\* Rows the loops of lines 139-142 and 159-162 walk before the break.
BaseRowsWalked(r) == Min(VecLen(r.base_adv_record), r.base_height)

\* Rows the loops of lines 191-194 and 214-217 walk before the break.
RangeRowsWalked(r) == Min(VecLen(r.range_adv_record), r.range_height)

\* _assign_to_base_chip: the advice loop (lines 139-157).
BaseAdvCalls(r) ==
    LET kept == SelectSeq(Slots(BaseRowsWalked(r), VAR_COLUMNS),
                          LAMBDA s : IsSome(r.base_adv_record[s[1]][s[2]][1]))
    IN  [k \in 1 .. Len(kept) |->
           AssignAdvice(<<"base", kept[k][2]>>, kept[k][1],
                        Unwrap(r.base_adv_record[kept[k][1]][kept[k][2]][1]))]

\* _assign_to_base_chip: the fixed loop (lines 159-179).
BaseFixCalls(r) ==
    LET kept == SelectSeq(Slots(BaseRowsWalked(r), FIXED_COLUMNS),
                          LAMBDA s : IsSome(r.base_fix_record[s[1]][s[2]]))
    IN  [k \in 1 .. Len(kept) |->
           AssignFixed(BaseFixedColumn(kept[k][2]), kept[k][1],
                       Unwrap(r.base_fix_record[kept[k][1]][kept[k][2]]))]

\* A base-unit table that keeps the handle of every placed value.
BaseCellTableAllPlaced(r) ==
    [col \in 0 .. (VAR_COLUMNS - 1) |->
       [row \in 0 .. (r.base_height - 1) |->
          IF /\ row < BaseRowsWalked(r)
             /\ IsSome(r.base_adv_record[row][col][1])
          THEN Some(PlacedCell(BaseChip, col, row,
                               Unwrap(r.base_adv_record[row][col][1])))
          ELSE None]]

\* _assign_to_base_chip: cells (lines 135-137, 152-154).
BaseCellTable(r) ==
    [col \in 0 .. (VAR_COLUMNS - 1) |->
       [row \in 0 .. (r.base_height - 1) |->
          IF /\ row < BaseRowsWalked(r)
             /\ IsSome(r.base_adv_record[row][col][1])
             /\ r.base_adv_record[row][col][2]
          THEN Some(PlacedCell(BaseChip, col, row,
                               Unwrap(r.base_adv_record[row][col][1])))
          ELSE None]]

\* _assign_to_base_chip (lines 130-182), the Region accepting every call.
assign_to_base_chip(r) ==
    [calls |-> BaseAdvCalls(r) \o BaseFixCalls(r), cells |-> BaseCellTable(r)]

\* _assign_to_range_chip: the fixed loop (lines 191-212).
RangeFixCalls(r) ==
    LET kept == SelectSeq(Slots(RangeRowsWalked(r), 2),
                          LAMBDA s : IsSome(r.range_fix_record[s[1]][s[2]]))
    IN  [k \in 1 .. Len(kept) |->
           AssignFixed(IF kept[k][2] = 0 THEN <<"block_first", 0>>
                                         ELSE <<"range_class", 0>>,
                       kept[k][1],
                       Unwrap(r.range_fix_record[kept[k][1]][kept[k][2]]))]

\* _assign_to_range_chip: the advice loop (lines 214-229).
RangeAdvCalls(r) ==
    LET kept == SelectSeq(Slots(RangeRowsWalked(r), 1),
                          LAMBDA s : IsSome(r.range_adv_record[s[1]][1]))
    IN  [k \in 1 .. Len(kept) |->
           AssignAdvice(<<"value", 0>>, kept[k][1],
                        Unwrap(r.range_adv_record[kept[k][1]][1]))]

\* _assign_to_range_chip: cells (lines 189, 225-227).
RangeCellTable(r) ==
    [col \in 0 .. 0 |->
       [row \in 0 .. (r.range_height - 1) |->
          IF /\ row < RangeRowsWalked(r)
             /\ IsSome(r.range_adv_record[row][1])
             /\ r.range_adv_record[row][2]
          THEN Some(PlacedCell(RangeChip, 0, row, Unwrap(r.range_adv_record[row][1])))
          ELSE None]]

\* _assign_to_range_chip (lines 184-232), the Region accepting every call.
assign_to_range_chip(r) ==
    [calls |-> RangeFixCalls(r) \o RangeAdvCalls(r), cells |-> RangeCellTable(r)]

\* cells[cell.region as usize][cell.col][cell.row].as_ref().unwrap() does not
\* panic: both indices are in bounds and the entry is Some.
Resolves(table, cell) ==
    /\ cell.col \in DOMAIN table[ChipIndex(cell.region)]
    /\ cell.row \in DOMAIN table[ChipIndex(cell.region)][cell.col]
    /\ IsSome(table[ChipIndex(cell.region)][cell.col][cell.row])

LookupCell(table, cell) == Unwrap(table[ChipIndex(cell.region)][cell.col][cell.row])

\* The first pair of permutations one side of which does not resolve,
\* Len(permutations) + 1 when every pair resolves.
FirstUnresolved(r, table) ==
    LET bad == {k \in 1 .. Len(r.permutations) :
                  \/ ~Resolves(table, r.permutations[k][1])
                  \/ ~Resolves(table, r.permutations[k][2])}
    IN  IF bad = {} THEN Len(r.permutations) + 1
        ELSE CHOOSE k \in bad : \A j \in bad : k <= j

\* A permutation phase that passes over a pair one side of which does not
\* resolve, and declares the others.
assign_permutation_skipping(r, table) ==
    LET good == SelectSeq([k \in 1 .. Len(r.permutations) |-> k],
                          LAMBDA k : /\ Resolves(table, r.permutations[k][1])
                                     /\ Resolves(table, r.permutations[k][2]))
    IN  [calls |-> [k \in 1 .. Len(good) |->
                      ConstrainEqual(LookupCell(table, r.permutations[good[k]][1]),
                                     LookupCell(table, r.permutations[good[k]][2]))],
         ok    |-> TRUE]

\* _assign_permutation (lines 234-252), the Region accepting every call: the
\* pairs declared before the first panic, ok FALSE when there is a panic.
assign_permutation(r, table) ==
    LET stop == FirstUnresolved(r, table)
    IN  [calls |-> [k \in 1 .. (stop - 1) |->
                      ConstrainEqual(LookupCell(table, r.permutations[k][1]),
                                     LookupCell(table, r.permutations[k][2]))],
         ok    |-> stop > Len(r.permutations)]

\* The placements with the range unit served before the base unit.
PlacementCallsRangeFirst(r) ==
    assign_to_range_chip(r).calls \o assign_to_base_chip(r).calls

\* The placements of assign_all in the order it makes them (lines 260-261).
PlacementCalls(r) == assign_to_base_chip(r).calls \o assign_to_range_chip(r).calls

\* vec![base_cells, range_cells] (line 262).
CellTable(r) ==
    [u \in 0 .. 1 |-> IF u = 0 THEN BaseCellTable(r) ELSE RangeCellTable(r)]

\* An assign_all that passes over the call the Region refuses and goes on.
assign_all_swallowing(r, fail_at) ==
    LET table     == CellTable(r)
        perm      == assign_permutation(r, table)
        attempted == PlacementCalls(r) \o perm.calls
        accepted  == IF fail_at \in 1 .. Len(attempted)
                     THEN SubSeq(attempted, 1, fail_at - 1)
                            \o SubSeq(attempted, fail_at + 1, Len(attempted))
                     ELSE attempted
    IN  IF ~perm.ok
        THEN [calls |-> accepted, result |-> "panic", cells |-> None]
        ELSE [calls |-> accepted, result |-> "ok", cells |-> Some(table)]

\* Records::assign_all (lines 254-265).  fail_at is the Region's choice: 0
\* when it accepts every call, k when its k-th call returns Err, which `?`
\* forwards at once.  calls are the calls the Region accepted.
assign_all(r, fail_at) ==
    LET table     == CellTable(r)
        perm      == assign_permutation(r, table)
        attempted == PlacementCalls(r) \o perm.calls
    IN  IF fail_at \in 1 .. Len(attempted)
        THEN [calls |-> SubSeq(attempted, 1, fail_at - 1),
              result |-> "err", cells |-> None]
        ELSE IF ~perm.ok
        THEN [calls |-> attempted, result |-> "panic", cells |-> None]
        ELSE [calls |-> attempted, result |-> "ok", cells |-> Some(table)]

\* Calls assign_all makes on r when the Region accepts every one of them.
AttemptedCalls(r) == assign_all(r, 0).calls

AssignAll(fail_at) ==
    /\ ~fault
    /\ LET res == assign_all(records, fail_at)
       IN  /\ region' = region \o res.calls
           /\ outcome' = res.result
           /\ cells' = res.cells
           /\ fault' = (res.result = "panic")
    /\ runs' = runs + 1
    /\ last' = [NoRequest EXCEPT !.op = "assign_all", !.offset = fail_at]
    /\ UNCHANGED <<records, ncalls, base_steps, range_tops, consistent,
                   holders, strong, context, clones>>

\* #[derive(Clone)] of Context (line 25): the clone holds the same
\* Arc<Mutex<Records>>, and no new handle to the Rc.
ContextClone ==
    /\ ~fault
    /\ clones' = clones + 1
    /\ UNCHANGED <<region, outcome, cells, runs>>
    /\ UNCHANGED ledgerVars
    /\ UNCHANGED handleVars

(***************************************************************************)
(* Initial state: Rc::new(RefCell::new(Context::new())) held by its        *)
(* creator, the ledger Records::default() (lines 43-49).                   *)
(***************************************************************************)
Init ==
    /\ records = RecordsDefault
    /\ fault = FALSE
    /\ last = NoRequest
    /\ ncalls = 0
    /\ base_steps = {}
    /\ range_tops = {}
    /\ consistent = TRUE
    /\ holders = [h \in Holders |-> IF h = 1 THEN "rc" ELSE "free"]
    /\ strong = 1
    /\ context = "shared"
    /\ region = << >>
    /\ outcome = "none"
    /\ cells = None
    /\ runs = 0
    /\ clones = 0

(***************************************************************************)
(* The requests' inputs.                                                   *)
(***************************************************************************)
\* Steps of base-unit requests: the low steps and the first step of the
\* second storage block, which makes the storage grow a second time.
BaseSteps == (0 .. MaxStep) \cup {EXTEND_SIZE}

\* Cells that hold a recorded value.
PlacedCells(r) ==
    {CellNew(BaseChip, col, row) :
        <<col, row>> \in {cr \in (0 .. (VAR_COLUMNS - 1)) \X DOMAIN r.base_adv_record :
                            IsSome(r.base_adv_record[cr[2]][cr[1]][1])}}
    \cup
    {CellNew(RangeChip, 0, row) :
        row \in {x \in DOMAIN r.range_adv_record : IsSome(r.range_adv_record[x][1])}}

Literals == {Unassigned(v) : v \in Vals}

\* References a caller holding the handles of the placed cells can make.
ValidRefs(r) ==
    {Assigned([cell |-> c, value |-> Unwrap(StoredAt(r, c))]) : c \in PlacedCells(r)}

\* Lists of at most maxlen (schema, coefficient) pairs.
PairLists(schemas, coeffs, maxlen) ==
    UNION {[1 .. k -> schemas \X coeffs] : k \in 0 .. maxlen}

(***************************************************************************)
(* SpecBase: base-unit requests at any steps, in any order, rewriting      *)
(* steps included: one_line with at most one pair and one_line_with_last   *)
(* with its tail alone, each a literal or a reference to a placed cell.    *)
(***************************************************************************)
BaseOneLine ==
    /\ ncalls < MaxCalls
    /\ \E offset \in BaseSteps :
         \E pairs \in PairLists(Literals \cup ValidRefs(records), {1}, 1) :
           OneLine(offset, pairs, None, << >>, None)

BaseOneLineWithLast ==
    /\ ncalls < MaxCalls
    /\ \E offset \in BaseSteps :
         \E tail \in (Literals \cup ValidRefs(records)) \X {2} :
           OneLineWithLast(offset, << >>, tail, None, << >>, None)

NextBase == BaseOneLine \/ BaseOneLineWithLast

SpecBase == Init /\ [][NextBase]_vars

(***************************************************************************)
(* Claims settled under SpecBase.                                          *)
(***************************************************************************)
\* The two sides of every pending pair have the same recorded value.
PermutationValuesEqual(r) ==
    \A k \in 1 .. Len(r.permutations) :
      StoredAt(r, r.permutations[k][1]) = StoredAt(r, r.permutations[k][2])

\* C1 (as claimed): after any sequence of requests, rewrites of written
\* steps included, in which every reference carried the value stored at its
\* cell when the request was made, the two sides of every pair in
\* permutations have equal recorded values.
C1_CopyConstraintSoundness == consistent => PermutationValuesEqual(records)

\* C4: base_height is 0 when no base-unit request was made, and otherwise
\* 1 + the largest step passed to one_line or one_line_with_last, in
\* whatever order the steps came.
C4_BaseHeight ==
    records.base_height = IF base_steps = {} THEN 0 ELSE 1 + Max(base_steps)

\* C4's case: a request at a low step after one at the second block's step.
C4_Witness ==
    /\ ~fault
    /\ EXTEND_SIZE \in base_steps
    /\ last.op \in {"one_line", "one_line_with_last"}
    /\ last.offset < EXTEND_SIZE
    /\ records.base_height = EXTEND_SIZE + 1

\* The cells the last request of the next state refers to.
ReferencedCells(req) ==
    {Unwrap(req.pairs[i][1].cell) :
        i \in {j \in 1 .. Len(req.pairs) : IsSome(req.pairs[j][1].cell)}}
    \cup
    (IF IsSome(req.tail) /\ IsSome(Unwrap(req.tail)[1].cell)
     THEN {Unwrap(Unwrap(req.tail)[1].cell)} ELSE {})

\* A base-unit request at step s leaves every other row as it was, but for
\* the needs_copy flag of a cell it refers to, which it may set.
OtherRowsKept ==
    \A row \in DOMAIN records.base_adv_record :
      row # last'.offset =>
        /\ row \in DOMAIN records'.base_adv_record
        /\ row \in DOMAIN records'.base_fix_record
        /\ records'.base_fix_record[row] = records.base_fix_record[row]
        /\ \A col \in 0 .. (VAR_COLUMNS - 1) :
             /\ records'.base_adv_record[row][col][1] =
                  records.base_adv_record[row][col][1]
             /\ \/ records'.base_adv_record[row][col][2] =
                     records.base_adv_record[row][col][2]
                \/ /\ records'.base_adv_record[row][col][2]
                   /\ CellNew(BaseChip, col, row) \in ReferencedCells(last')

\* C9: a one_line call at step s, one that grows the storage included,
\* changes neither the value nor any coefficient recorded at another step;
\* all it may change in another row is the needs_copy flag of a cell it
\* refers to.  (Stated for every call, whatever the order of the steps:
\* calls at strictly increasing steps are the claim's case.)
C9_GrowthIdempotence ==
    [][(ncalls' = ncalls + 1 /\ last'.op \in {"one_line", "one_line_with_last"})
         => OtherRowsKept]_vars

\* C9's case: a call at the second block's step has grown the storage past
\* a row written before, and has flagged a cell of that row it refers to.
C9_Witness ==
    /\ ~fault
    /\ last.op = "one_line"
    /\ last.offset = EXTEND_SIZE
    /\ base_steps = {0, EXTEND_SIZE}
    /\ VecLen(records.base_adv_record) = 2 * EXTEND_SIZE
    /\ CellNew(BaseChip, 0, 0) \in ReferencedCells(last)
    /\ records.base_adv_record[0][0] = <<Some(1), TRUE>>
    /\ records.base_fix_record[0][0] = Some(1)

(***************************************************************************)
(* SpecLine: full-width base-unit requests, with too many pairs included,  *)
(* at a step of the first storage block and one of the second.  Lane i     *)
(* takes coefficient i + 1; lane 0 takes a literal or a reference to a     *)
(* placed cell, every other lane a literal that differs from its           *)
(* neighbours' values; the product, next-row and constant coefficients are *)
(* 3, 4 and 5.                                                             *)
(***************************************************************************)
LineSteps == {0, EXTEND_SIZE}

\* k pairs, the first one the schema first, the others literals.
LinePairs(k, first) ==
    [i \in 1 .. k |->
       <<IF i = 1 THEN first
         ELSE Unassigned(IF i % 2 = 1 THEN first.value
                         ELSE CHOOSE w \in Vals : w # first.value),
         i>>]

LineSchemas == Literals \cup ValidRefs(records)

\* <<product coefficients, next-row coefficient, constant>>
LineExtras ==
    {<<<< >>, None, None>>, <<<<3>>, None, Some(5)>>,
     <<<< >>, Some(4), None>>, <<<<3>>, Some(4), Some(5)>>}

LineOneLine ==
    /\ ncalls < MaxLayoutCalls
    /\ \E offset \in LineSteps, k \in 0 .. VAR_COLUMNS, first \in LineSchemas,
          x \in LineExtras :
         OneLine(offset, LinePairs(k, first), x[3], x[1], x[2])

LineOneLineTooMany ==
    /\ ncalls < MaxLayoutCalls
    /\ \E offset \in LineSteps, first \in LineSchemas, x \in LineExtras :
         OneLine(offset, LinePairs(VAR_COLUMNS + 1, first), x[3], x[1], x[2])

LineOneLineWithLast ==
    /\ ncalls < MaxLayoutCalls
    /\ \E offset \in LineSteps, k \in 0 .. (VAR_COLUMNS - 1), first \in LineSchemas,
          x \in LineExtras :
         OneLineWithLast(offset, LinePairs(k, first), <<first, VAR_COLUMNS>>,
                         x[3], x[1], x[2])

LineOneLineWithLastTooMany ==
    /\ ncalls < MaxLayoutCalls
    /\ \E offset \in LineSteps, first \in LineSchemas, x \in LineExtras :
         OneLineWithLast(offset, LinePairs(VAR_COLUMNS, first),
                         <<first, VAR_COLUMNS>>, x[3], x[1], x[2])

NextLine ==
    \/ LineOneLine
    \/ LineOneLineTooMany
    \/ LineOneLineWithLast
    \/ LineOneLineWithLastTooMany

SpecLine == Init /\ [][NextLine]_vars

(***************************************************************************)
(* Claims settled under SpecLine.                                          *)
(***************************************************************************)
\* The last request of the next state breaks the lane-count precondition.
TooManyPairs(req) ==
    \/ req.op = "one_line" /\ Len(req.pairs) > VAR_COLUMNS
    \/ req.op = "one_line_with_last" /\ Len(req.pairs) > VAR_COLUMNS - 1

\* C2: a one_line request with more than VAR_COLUMNS pairs, and a
\* one_line_with_last request with more than VAR_COLUMNS - 1 head pairs,
\* panics and leaves every field of the ledger as it was.
C2_LaneCountPrecondition ==
    [][(ncalls' = ncalls + 1 /\ TooManyPairs(last'))
         => (fault' /\ records' = records)]_vars

\* C2's case: a request with too many pairs has panicked on a ledger that
\* holds an earlier row, at a step beyond the storage it would have grown.
C2_Witness ==
    /\ fault
    /\ TooManyPairs(last)
    /\ last.offset = EXTEND_SIZE
    /\ records.base_height = 1
    /\ VecLen(records.base_adv_record) = EXTEND_SIZE

\* The row a one_line request lays out at a step not written before.
ExpectedFixRow(req) ==
    [col \in 0 .. (FIXED_COLUMNS - 1) |->
       IF col < Len(req.pairs) THEN Some(req.pairs[col + 1][2])
       ELSE IF col < VAR_COLUMNS THEN None
       ELSE IF col - VAR_COLUMNS < MUL_COLUMNS
       THEN IF col - VAR_COLUMNS < Len(req.mul_coeffs)
            THEN Some(req.mul_coeffs[col - VAR_COLUMNS + 1]) ELSE None
       ELSE IF col = VAR_COLUMNS + MUL_COLUMNS THEN req.next
       ELSE req.constant]

ExpectedAdvValues(req) ==
    [col \in 0 .. (VAR_COLUMNS - 1) |->
       IF col < Len(req.pairs) THEN Some(req.pairs[col + 1][1].value) ELSE None]

\* Row step of the ledger holds no value and no coefficient (it was never
\* written, allocated or not).
RowUnwritten(r, step) ==
    step \in DOMAIN r.base_adv_record =>
      /\ r.base_fix_record[step] = BaseFixDefault
      /\ \A col \in 0 .. (VAR_COLUMNS - 1) : r.base_adv_record[step][col][1] = None

\* C8: a one_line request that returns, at a step never written before,
\* with k <= VAR_COLUMNS pairs, at most MUL_COLUMNS product coefficients, an
\* optional next-row coefficient and an optional constant, leaves value i in
\* base_adv[step][i].0 and coefficient i in base_fix[step][i] for i < k, the
\* j-th product coefficient in base_fix[step][VAR_COLUMNS + j], the next-row
\* coefficient in base_fix[step][VAR_COLUMNS + MUL_COLUMNS], the constant in
\* base_fix[step][VAR_COLUMNS + MUL_COLUMNS + 1], and None everywhere else
\* in that row.
C8_GatePackingLayout ==
    [][(/\ ncalls' = ncalls + 1
        /\ last'.op = "one_line"
        /\ ~fault'
        /\ Len(last'.mul_coeffs) <= MUL_COLUMNS
        /\ last'.offset \notin base_steps
        /\ RowUnwritten(records, last'.offset))
         => (/\ records'.base_fix_record[last'.offset] = ExpectedFixRow(last')
             /\ \A col \in 0 .. (VAR_COLUMNS - 1) :
                  records'.base_adv_record[last'.offset][col][1] =
                    ExpectedAdvValues(last')[col])]_vars

\* C8's case: the second request of a run has laid out a full row, with a
\* product coefficient, a next-row coefficient and a constant, at a step
\* not written before.
C8_Witness ==
    /\ ~fault
    /\ ncalls = 2
    /\ last.op = "one_line"
    /\ Len(last.pairs) = VAR_COLUMNS
    /\ Len(last.mul_coeffs) = MUL_COLUMNS
    /\ IsSome(last.next) /\ IsSome(last.constant)
    /\ base_steps = {0, EXTEND_SIZE}
    /\ records.base_fix_record[last.offset] =
         [col \in 0 .. (FIXED_COLUMNS - 1) |-> Some(col + 1)]

(***************************************************************************)
(* SpecRange: range-unit requests in any order at overlapping and at       *)
(* disjoint steps, with no chunk and with too many chunks included.        *)
(***************************************************************************)
RangeSteps == {0, 1, MAX_CHUNKS + 1}

LeadingBits == {4}

\* n chunks, each differing from its neighbours and the first one from the
\* composite value v.
RangeChunks(n, v) ==
    [i \in 1 .. n |-> IF i % 2 = 0 THEN v ELSE CHOOSE w \in Vals : w # v]

RangeSingle ==
    /\ ncalls < MaxLayoutCalls
    /\ \E offset \in RangeSteps, v \in Vals, leading_bits \in LeadingBits :
         AssignSingleRangeValue(offset, v, leading_bits)

RangeDecompose ==
    /\ ncalls < MaxLayoutCalls
    /\ \E offset \in RangeSteps, v \in Vals, n \in 1 .. MAX_CHUNKS,
          leading_bits \in LeadingBits :
         AssignRangeValue(offset, v, RangeChunks(n, v), leading_bits, TRUE)

RangeDecomposeNoChunk ==
    /\ ncalls < MaxLayoutCalls
    /\ \E offset \in RangeSteps, v \in Vals, leading_bits \in LeadingBits,
          overflow_checks \in BOOLEAN :
         AssignRangeValue(offset, v, << >>, leading_bits, overflow_checks)

RangeDecomposeTooMany ==
    /\ ncalls < MaxLayoutCalls
    /\ \E offset \in RangeSteps, v \in Vals, leading_bits \in LeadingBits :
         AssignRangeValue(offset, v, RangeChunks(MAX_CHUNKS + 1, v), leading_bits, TRUE)

NextRange ==
    \/ RangeSingle
    \/ RangeDecompose
    \/ RangeDecomposeNoChunk
    \/ RangeDecomposeTooMany

SpecRange == Init /\ [][NextRange]_vars

(***************************************************************************)
(* Claims settled under SpecRange.                                         *)
(***************************************************************************)
\* Rows of the range unit that hold a value or a marker.
WrittenRangeRows(r) ==
    {row \in DOMAIN r.range_adv_record :
       \/ IsSome(r.range_adv_record[row][1])
       \/ IsSome(r.range_fix_record[row][0])
       \/ IsSome(r.range_fix_record[row][1])}

\* C5 (as claimed): range_height is 0 when no range-unit request was made,
\* and otherwise 1 + the largest step into which a request has written a
\* value or a marker, the placeholder row step + MAX_CHUNKS included.
C5_RangeHeightAsClaimed ==
    records.range_height =
      IF WrittenRangeRows(records) = {} THEN 0
      ELSE 1 + Max(WrittenRangeRows(records))

\* C5 (amended): range_height is 0 when no range-unit request was made, and
\* otherwise 2 + the largest row a request lays out: step for
\* assign_single_range_value, the placeholder row step + MAX_CHUNKS for
\* assign_range_value.
C5_RangeHeight ==
    records.range_height = IF range_tops = {} THEN 0 ELSE 2 + Max(range_tops)

\* C5's case: a single value at step 0 placed after a decomposition at
\* step 1, whose placeholder row 1 + MAX_CHUNKS stays the highest.
C5_Witness ==
    /\ ~fault
    /\ last.op = "assign_single_range_value"
    /\ last.offset = 0
    /\ range_tops = {0, 1 + MAX_CHUNKS}
    /\ records.range_height = MAX_CHUNKS + 3
    /\ Max(WrittenRangeRows(records)) = MAX_CHUNKS + 1

\* An entry of the ledger before a request, with the rows the request's
\* growth adds.
AdvBefore(row) ==
    IF row \in DOMAIN records.range_adv_record
    THEN records.range_adv_record[row] ELSE RangeAdvDefault

FixBefore(row) ==
    IF row \in DOMAIN records.range_fix_record
    THEN records.range_fix_record[row] ELSE RangeFixDefault

\* A request leaves every row outside block as it was: a row it met keeps
\* its entries, a row its growth adds is empty.
OtherRangeRowsKept(block) ==
    /\ DOMAIN records'.range_fix_record = DOMAIN records'.range_adv_record
    /\ \A row \in DOMAIN records.range_adv_record \ block :
         /\ row \in DOMAIN records'.range_adv_record
         /\ records'.range_adv_record[row] = records.range_adv_record[row]
         /\ records'.range_fix_record[row] = records.range_fix_record[row]
    /\ \A row \in DOMAIN records'.range_adv_record \
                   (DOMAIN records.range_adv_record \cup block) :
         /\ records'.range_adv_record[row] = RangeAdvDefault
         /\ records'.range_fix_record[row] = RangeFixDefault

\* What assign_range_value(step, (v, chunks), leading_bits) lays out.
ExpectedRangeAdv(req, row) ==
    IF row = req.offset
    THEN <<Some(req.v), AdvBefore(row)[2]>>
    ELSE IF req.offset + 1 <= row /\ row <= req.offset + Len(req.chunks)
    THEN <<Some(req.chunks[row - req.offset]), AdvBefore(row)[2]>>
    ELSE AdvBefore(row)

ExpectedRangeFix(req, row) ==
    [col \in 0 .. 1 |->
       IF col = 0
       THEN IF row = req.offset + MAX_CHUNKS THEN Some(0)
            ELSE IF row = req.offset THEN Some(1)
            ELSE FixBefore(row)[0]
       ELSE IF row = req.offset + Len(req.chunks) THEN Some(req.leading_bits)
            ELSE IF req.offset + 1 <= row /\ row < req.offset + Len(req.chunks)
            THEN Some(COMMON_RANGE_BITS)
            ELSE FixBefore(row)[1]]

\* C6: assign_range_value(step, (v, chunks), leading_bits) with
\* 1 <= n = len(chunks) <= MAX_CHUNKS leaves range_adv[step].0 = v and
\* range_fix[step][0] = 1, range_adv[step+1+i].0 = chunks[i] for i < n,
\* range_fix[step+1+i][1] = the common limb width for i < n-1,
\* range_fix[step+n][1] = leading_bits, range_fix[step+MAX_CHUNKS][0] = 0,
\* writes no other range entry, and returns the handle (RangeChip, lane 0,
\* step) with value v.  (Stated for every ledger the request meets;
\* unwritten rows are the claim's case.)
C6_RangeDecompositionLayout ==
    [][(/\ ncalls' = ncalls + 1
        /\ last'.op = "assign_range_value"
        /\ 1 <= Len(last'.chunks) /\ Len(last'.chunks) <= MAX_CHUNKS)
         => (/\ ~fault'
             /\ last'.ret = Some(AssignedValueNew(RangeChip, 0, last'.offset, last'.v))
             /\ \A row \in last'.offset .. (last'.offset + MAX_CHUNKS) :
                  /\ records'.range_adv_record[row] = ExpectedRangeAdv(last', row)
                  /\ records'.range_fix_record[row] = ExpectedRangeFix(last', row)
             /\ OtherRangeRowsKept(last'.offset .. (last'.offset + MAX_CHUNKS)))]_vars

\* C6's case: the spec's scenario, two chunks at step 0 of an empty ledger.
C6_Witness ==
    /\ ~fault
    /\ ncalls = 1
    /\ last.op = "assign_range_value"
    /\ last.offset = 0
    /\ Len(last.chunks) = 2
    /\ last.leading_bits = 4
    /\ records.range_fix_record[0] = (0 :> Some(1) @@ 1 :> None)
    /\ records.range_fix_record[1] = (0 :> None @@ 1 :> Some(COMMON_RANGE_BITS))
    /\ records.range_fix_record[2][1] = Some(4)
    /\ records.range_fix_record[MAX_CHUNKS][0] = Some(0)
    /\ records.range_adv_record[0][1] = Some(last.v)
    /\ records.range_adv_record[1][1] = Some(last.chunks[1])
    /\ records.range_adv_record[2][1] = Some(last.chunks[2])
    /\ WrittenRangeRows(records) = {0, 1, 2}

\* C7 (as claimed): for every chunk list of length at most MAX_CHUNKS, the
\* empty list included, assign_range_value completes without a fault,
\* records the composite value at step and has written the placeholder
\* range_fix[step + MAX_CHUNKS][0] = 0.
C7_PlaceholderForEveryLength ==
    (last.op = "assign_range_value" /\ Len(last.chunks) <= MAX_CHUNKS)
      => /\ ~fault
         /\ records.range_adv_record[last.offset][1] = Some(last.v)
         /\ records.range_fix_record[last.offset + MAX_CHUNKS][0] = Some(0)

\* C10: assign_range_value with more than MAX_CHUNKS chunks panics at that
\* call before any write: range_adv, range_fix, range_height and the
\* storage length stay as they were.
C10_ChunkCountPrecondition ==
    [][(/\ ncalls' = ncalls + 1
        /\ last'.op = "assign_range_value"
        /\ Len(last'.chunks) > MAX_CHUNKS)
         => (fault' /\ last'.ret = None /\ records' = records)]_vars

\* C10's case: a request with too many chunks has panicked, at a step whose
\* block would have raised the height of the ledger an earlier request left.
C10_Witness ==
    /\ fault
    /\ last.op = "assign_range_value"
    /\ Len(last.chunks) = MAX_CHUNKS + 1
    /\ last.offset = MAX_CHUNKS + 1
    /\ records.range_height = 2
    /\ WrittenRangeRows(records) = {0}

(***************************************************************************)
(* SpecOwn: the handles to the Shared Context are cloned, wrapped, dropped *)
(* and converted back into a plain Context, in every order MaxHolders      *)
(* owners allow.                                                           *)
(***************************************************************************)
OwnRcClone == \E h \in Holders, h2 \in Holders : RcClone(h, h2)

OwnIntegerContextNew == \E h \in Holders : IntegerContextNew(h)

OwnIntegerContextClone == \E h \in Holders, h2 \in Holders : IntegerContextClone(h, h2)

OwnNativeScalarEccContextNew == \E h \in Holders : NativeScalarEccContextNew(h)

OwnGeneralScalarEccContextNew == \E h \in Holders : GeneralScalarEccContextNew(h)

OwnDropHandle == \E h \in Holders : DropHandle(h)

OwnIntoContext == \E h \in Holders : IntoContext(h)

NextOwn ==
    \/ OwnRcClone
    \/ OwnIntegerContextNew
    \/ OwnIntegerContextClone
    \/ OwnNativeScalarEccContextNew
    \/ OwnGeneralScalarEccContextNew
    \/ OwnDropHandle
    \/ OwnIntoContext

SpecOwn == Init /\ [][NextOwn]_vars

\* C3: converting a wrapper into a plain Context succeeds exactly when no
\* owner other than the wrapper holds a handle to the Shared Context (the
\* wrapper's own internal handles do not count); with another handle alive
\* the conversion panics; and once a Context has been yielded no owner is
\* left that could issue a layout request.
C3_OwnershipRelease ==
    /\ last.op = "into_context" =>
         /\ IsSome(last.ret) <=> last.others = 0
         /\ IsSome(last.ret) <=> context = "owned"
         /\ last.others > 0 => fault
    /\ context = "owned" =>
         /\ \A h \in Holders : holders[h] = "free"
         /\ strong = 0
         /\ ~fault

\* A GeneralScalarEccContext, whose three handles are the only ones left
\* after the creator's clones were dropped, has been converted.
C3_Witness ==
    /\ last.op = "into_context"
    /\ last.kind = "general"
    /\ last.others = 0
    /\ IsSome(last.ret)
    /\ context = "owned"

(***************************************************************************)
(* SpecMat: construction followed by one materialization.  Up to           *)
(* MaxLayoutCalls layout requests, whose references are handles of placed  *)
(* cells or stray references (to a lane never written, to a row beyond the *)
(* height or beyond the storage, to lane 1 of the range unit), then        *)
(* assign_all on a Region that accepts every call or refuses one of them.  *)
(***************************************************************************)
\* Steps of the requests of SpecMat: the first step, and the first step of
\* the second storage block, which makes the storage grow a second time.
MatSteps == {0, EXTEND_SIZE}

\* Cells a stray reference can name.
StrayCells ==
    {CellNew(BaseChip, VAR_COLUMNS - 1, 0),
     CellNew(BaseChip, 0, EXTEND_SIZE - 1),
     CellNew(BaseChip, 0, EXTEND_SIZE),
     CellNew(RangeChip, 1, 0),
     CellNew(RangeChip, 0, 1)}

\* References to cells that hold no value when the request is made.
StrayRefs(r) ==
    {Assigned(AssignedValueNew(c.region, c.col, c.row, 1)) :
        c \in {x \in StrayCells : StoredAt(r, x) = None}}

MatSchemas(r) == Literals \cup ValidRefs(r) \cup StrayRefs(r)

MatOneLine ==
    /\ ncalls < MaxLayoutCalls /\ runs = 0
    /\ \E offset \in MatSteps, schema \in MatSchemas(records) :
         OneLine(offset, <<<<schema, 1>>>>, None, << >>, None)

MatOneLineWithLast ==
    /\ ncalls < MaxLayoutCalls /\ runs = 0
    /\ \E offset \in MatSteps, schema \in MatSchemas(records) :
         OneLineWithLast(offset, << >>, <<schema, 2>>, None, << >>, None)

\* one_line with MUL_COLUMNS + 1 and with MUL_COLUMNS + 3 product
\* coefficients: the latter reaches past the last fixed lane.
MatOneLineManyProducts ==
    /\ ncalls < MaxLayoutCalls /\ runs = 0
    /\ \E n \in {MUL_COLUMNS + 1, MUL_COLUMNS + 3}, next \in {None, Some(4)} :
         OneLine(0, << >>, None, [i \in 1 .. n |-> 3], next)

MatRangeSingle ==
    /\ ncalls < MaxLayoutCalls /\ runs = 0
    /\ \E leading_bits \in LeadingBits : AssignSingleRangeValue(0, 1, leading_bits)

MatRangeDecompose ==
    /\ ncalls < MaxLayoutCalls /\ runs = 0
    /\ \E leading_bits \in LeadingBits :
         AssignRangeValue(0, 1, RangeChunks(MAX_CHUNKS, 1), leading_bits, TRUE)

\* What the Region does with n calls: it accepts them all (0), or refuses
\* the first, a middle or the last one.
FailPoints(n) == {0} \cup ({1, (n + 1) \div 2, n} \cap (1 .. n))

MatAssignAll ==
    /\ runs = 0
    /\ \E fail_at \in FailPoints(Len(AttemptedCalls(records))) : AssignAll(fail_at)

NextMat ==
    \/ MatOneLine
    \/ MatOneLineWithLast
    \/ MatOneLineManyProducts
    \/ MatRangeSingle
    \/ MatRangeDecompose
    \/ MatAssignAll

SpecMat == Init /\ [][NextMat]_vars

(***************************************************************************)
(* Claims settled under SpecMat.                                           *)
(***************************************************************************)
\* The pairs a one_line / one_line_with_last request records, in order: one
\* (referenced cell, new placement) for every reference it carries.
NewPairs(req) ==
    LET head == [k \in 1 .. Len(req.pairs) |-> <<req.pairs[k][1], k - 1>>]
        all  == IF IsSome(req.tail)
                THEN Append(head, <<Unwrap(req.tail)[1], VAR_COLUMNS - 1>>)
                ELSE head
        refs == SelectSeq(all, LAMBDA e : IsSome(e[1].cell))
    IN  [k \in 1 .. Len(refs) |->
           <<Unwrap(refs[k][1].cell), CellNew(BaseChip, refs[k][2], req.offset)>>]

\* Pairs one side of which holds no recorded value.
UnplacedPairs(r) ==
    {k \in 1 .. Len(r.permutations) :
       \/ StoredAt(r, r.permutations[k][1]) = None
       \/ StoredAt(r, r.permutations[k][2]) = None}

FirstUnplaced(r) ==
    CHOOSE k \in UnplacedPairs(r) : \A j \in UnplacedPairs(r) : k <= j

\* constrain_equal calls the Region has accepted.
Declarations(log) == SelectSeq(log, LAMBDA c : c.call = "constrain_equal")

\* C11: a request that carries a reference either panics or records its
\* pair; and when materialization meets a pair one side of which holds no
\* value, assign_all does not return Ok and returns no table: with a Region
\* that accepts every call it panics in the permutation phase, the
\* declarations stopping before the first such pair.
C11_StructuralFault ==
    [][/\ (ncalls' = ncalls + 1 /\ last'.op \in {"one_line", "one_line_with_last"})
            => \/ fault'
               \/ records'.permutations = records.permutations \o NewPairs(last')
       /\ (runs' > runs /\ UnplacedPairs(records) # {})
            => /\ outcome' # "ok"
               /\ cells' = None
               /\ Len(Declarations(region')) < FirstUnplaced(records)
               /\ last'.offset = 0
                    => /\ outcome' = "panic"
                       /\ fault'
                       /\ Len(Declarations(region')) = FirstUnplaced(records) - 1]_vars

\* C11's case: materialization, on a Region accepting every call, of a
\* ledger one pair of which references lane 1 of the range unit.
C11_Witness ==
    /\ runs = 1
    /\ last.op = "assign_all" /\ last.offset = 0
    /\ outcome = "panic"
    /\ UnplacedPairs(records) # {}
    /\ \E k \in UnplacedPairs(records) :
         /\ records.permutations[k][1].region = RangeChip
         /\ records.permutations[k][1].col = 1

\* The phase a Region call belongs to: 0 a base-unit placement, 1 a
\* range-unit placement, 2 an equality declaration.
PhaseOf(c) ==
    IF c.call = "constrain_equal" THEN 2
    ELSE IF c.column[1] \in {"base", "coeff", "mul_coeff", "next_coeff", "constant"}
    THEN 0
    ELSE 1

\* Entries of the ledger below the heights that hold a value, a coefficient
\* or a marker: the placements a materialization has to make.
RecordedPlacements(r) ==
    Cardinality({s \in (0 .. (r.base_height - 1)) \X (0 .. (VAR_COLUMNS - 1)) :
                   IsSome(r.base_adv_record[s[1]][s[2]][1])})
    + Cardinality({s \in (0 .. (r.base_height - 1)) \X (0 .. (FIXED_COLUMNS - 1)) :
                     IsSome(r.base_fix_record[s[1]][s[2]])})
    + Cardinality({s \in (0 .. (r.range_height - 1)) \X (0 .. 1) :
                     IsSome(r.range_fix_record[s[1]][s[2]])})
    + Cardinality({row \in 0 .. (r.range_height - 1) :
                     IsSome(r.range_adv_record[row][1])})

\* C12: in a run of assign_all, however it ends, every base-unit placement
\* precedes every range-unit placement and every placement precedes every
\* constrain_equal; when a constrain_equal has been issued, every recorded
\* placement of both units has been made.
C12_MaterializationOrdering ==
    /\ \A i \in 1 .. Len(region) : \A j \in (i + 1) .. Len(region) :
         PhaseOf(region[i]) <= PhaseOf(region[j])
    /\ Declarations(region) # << >>
         => Len(region) - Len(Declarations(region)) = RecordedPlacements(records)

\* C12's case: a completed run that placed base-unit and range-unit entries
\* and declared an equality.
C12_Witness ==
    /\ outcome = "ok"
    /\ \E i \in 1 .. Len(region) : PhaseOf(region[i]) = 0
    /\ \E i \in 1 .. Len(region) : PhaseOf(region[i]) = 1
    /\ \E i \in 1 .. Len(region) : PhaseOf(region[i]) = 2

\* The calls of a log, as a set.
CallsOf(log) == {log[i] : i \in 1 .. Len(log)}

\* Every value recorded below the heights has been placed, and every pair
\* of permutations declared.
EverythingMade(r, log) ==
    /\ \A row \in 0 .. (r.base_height - 1), col \in 0 .. (VAR_COLUMNS - 1) :
         IsSome(r.base_adv_record[row][col][1])
           => AssignAdvice(<<"base", col>>, row, Unwrap(r.base_adv_record[row][col][1]))
                \in CallsOf(log)
    /\ \A row \in 0 .. (r.range_height - 1) :
         IsSome(r.range_adv_record[row][1])
           => AssignAdvice(<<"value", 0>>, row, Unwrap(r.range_adv_record[row][1]))
                \in CallsOf(log)
    /\ Len(log) - Len(Declarations(log)) = RecordedPlacements(r)
    /\ Len(Declarations(log)) = Len(r.permutations)

\* C13 (as claimed): a run of assign_all either made every placement and
\* declared every equality and returned the table, or it failed and left
\* none of the ledger's placements or declarations in the region.
C13_AllOrNothingAsClaimed ==
    runs > 0 =>
      \/ outcome = "ok" /\ IsSome(cells) /\ EverythingMade(records, region)
      \/ outcome # "ok" /\ region = << >>

\* C13 (amended): assign_all has no partial success.  It returns Ok, with
\* the table, only when the Region accepted every call, every placement
\* was made and every equality declared; when the Region refuses a call it
\* returns that error at once and no table, no call is made after the
\* refused one, and the calls accepted before it stay in the region.
C13_NoPartialSuccess ==
    runs > 0 =>
      /\ outcome = "ok"
           => /\ IsSome(cells)
              /\ last.offset = 0
              /\ EverythingMade(records, region)
              /\ ~fault
      /\ last.offset # 0
           => /\ outcome = "err"
              /\ cells = None
              /\ ~fault
              /\ Len(region) = last.offset - 1
      /\ outcome = "panic" => cells = None /\ fault

\* C13's case: the Region refused a call after it had accepted others.
C13_Witness ==
    /\ runs = 1
    /\ outcome = "err"
    /\ last.offset > 1
    /\ region # << >>
    /\ ~EverythingMade(records, region)

\* The recorded entry (value, needs_copy) of a cell of the table's shape.
RecordedAt(r, u, lane, step) ==
    IF u = 0 THEN r.base_adv_record[step][lane] ELSE r.range_adv_record[step]

\* The lanes and steps the table covers for unit u.
TableLanes(u) == IF u = 0 THEN 0 .. (VAR_COLUMNS - 1) ELSE 0 .. 0

TableSteps(r, u) ==
    IF u = 0 THEN 0 .. (r.base_height - 1) ELSE 0 .. (r.range_height - 1)

\* C14 (as claimed): the table a successful assign_all returns holds, for
\* every unit, lane and step below the unit's height, a handle where a
\* value was placed and None exactly where no value was placed.
C14_TableAsClaimed ==
    outcome = "ok" =>
      \A u \in 0 .. 1 : \A lane \in TableLanes(u) : \A step \in TableSteps(records, u) :
        IsSome(Unwrap(cells)[u][lane][step])
          <=> IsSome(RecordedAt(records, u, lane, step)[1])

\* C14 (amended): the table a successful assign_all returns is indexed
\* [unit][lane][step] over the lanes of each unit and the steps below its
\* height, and holds the handle of a cell exactly where a value was placed
\* and the cell's needs_copy flag is set; it holds None for a placed value
\* no request referenced and that itself carries no reference.
C14_ReturnedCellTable ==
    outcome = "ok" =>
      /\ IsSome(cells)
      /\ DOMAIN Unwrap(cells) = 0 .. 1
      /\ \A u \in 0 .. 1 :
           /\ DOMAIN Unwrap(cells)[u] = TableLanes(u)
           /\ \A lane \in TableLanes(u) :
                /\ DOMAIN Unwrap(cells)[u][lane] = TableSteps(records, u)
                /\ \A step \in TableSteps(records, u) :
                     Unwrap(cells)[u][lane][step] =
                       IF /\ IsSome(RecordedAt(records, u, lane, step)[1])
                          /\ RecordedAt(records, u, lane, step)[2]
                       THEN Some(PlacedCell(IF u = 0 THEN BaseChip ELSE RangeChip,
                                            lane, step,
                                            Unwrap(RecordedAt(records, u, lane, step)[1])))
                       ELSE None

\* C14's case: a returned table with a handle for a referenced cell and
\* None for a placed base-unit value that takes part in no pair.
C14_Witness ==
    /\ outcome = "ok"
    /\ \E lane \in TableLanes(0), step \in TableSteps(records, 0) :
         /\ IsSome(records.base_adv_record[step][lane][1])
         /\ Unwrap(cells)[0][lane][step] = None
    /\ \E u \in 0 .. 1 : \E lane \in TableLanes(u), step \in TableSteps(records, u) :
         IsSome(Unwrap(cells)[u][lane][step])

(***************************************************************************)
(* SpecLife: the life of one ledger.  The creator wraps the Shared Context *)
(* and converts the wrapper back into a plain Context; a Context can be    *)
(* cloned (line 25), the clone holding the same Arc<Mutex<Records>>;       *)
(* records is a pub field (line 27) and one_line and assign_all are pub    *)
(* methods of Records, so whoever holds the Shared Context, the plain      *)
(* Context or a clone can issue a layout request or run assign_all.        *)
(***************************************************************************)
\* Some handle to the ledger is alive.
LedgerReachable ==
    \/ context = "shared" /\ strong > 0
    \/ context = "owned"
    \/ clones > 0

LifeIntegerContextNew == \E h \in Holders : IntegerContextNew(h)

LifeGeneralScalarEccContextNew == \E h \in Holders : GeneralScalarEccContextNew(h)

LifeIntoContext == \E h \in Holders : IntoContext(h)

LifeContextClone ==
    /\ clones < MaxClones
    /\ LedgerReachable
    /\ ContextClone

LifeOneLine ==
    /\ ncalls < MaxLayoutCalls
    /\ LedgerReachable
    /\ \E offset \in MatSteps, v \in Vals :
         OneLine(offset, <<<<Unassigned(v), 1>>>>, None, << >>, None)

LifeAssignAll ==
    /\ runs < MaxRuns
    /\ LedgerReachable
    /\ AssignAll(0)

NextLife ==
    \/ LifeIntegerContextNew
    \/ LifeGeneralScalarEccContextNew
    \/ LifeIntoContext
    \/ LifeContextClone
    \/ LifeOneLine
    \/ LifeAssignAll

SpecLife == Init /\ [][NextLife]_vars

\* C15 (as claimed): a ledger is materialized at most once, and once a
\* wrapper has been converted to a plain Context and assign_all has run on
\* its ledger, no layout request changes the ledger any more.
C15_SingleMaterialization ==
    [][/\ runs' <= 1
       /\ (context = "owned" /\ runs >= 1) => records' = records]_vars

\* The needs_copy flag recorded at a cell, FALSE when the cell is outside
\* the storage.
FlagAt(r, cell) ==
    IF cell.region = BaseChip
    THEN /\ cell.row \in DOMAIN r.base_adv_record
         /\ cell.col \in 0 .. (VAR_COLUMNS - 1)
         /\ r.base_adv_record[cell.row][cell.col][2]
    ELSE /\ cell.row \in DOMAIN r.range_adv_record
         /\ cell.col = 0
         /\ r.range_adv_record[cell.row][2]

HeightOf(r, cell) ==
    IF cell.region = BaseChip THEN r.base_height ELSE r.range_height

\* C16: when both sides of every pair hold a recorded value, as they do
\* when every reference named a cell an earlier request had placed a value
\* into, and the Region accepts every call, assign_all completes: both
\* sides of every pair have needs_copy set and a step below their unit's
\* height, the table holds their handles and every pair is declared.
C16_PermutationsResolve ==
    (runs > 0 /\ UnplacedPairs(records) = {} /\ last.offset = 0) =>
      /\ outcome = "ok"
      /\ ~fault
      /\ Len(Declarations(region)) = Len(records.permutations)
      /\ \A k \in 1 .. Len(records.permutations) : \A side \in 1 .. 2 :
           LET cell == records.permutations[k][side]
           IN  /\ IsSome(StoredAt(records, cell))
               /\ FlagAt(records, cell)
               /\ cell.row < HeightOf(records, cell)
               /\ Resolves(Unwrap(cells), cell)

\* C16's case: a completed materialization of a ledger with a pair whose
\* left side is the handle a range request returned, every reference having
\* named a placed cell.
C16_Witness ==
    /\ runs = 1 /\ consistent /\ last.offset = 0
    /\ outcome = "ok"
    /\ \E k \in 1 .. Len(records.permutations) :
         records.permutations[k][1].region = RangeChip
    /\ Len(Declarations(region)) >= 1

\* Cells whose needs_copy flag is set.
FlaggedCells(r) ==
    {CellNew(BaseChip, s[2], s[1]) :
       s \in {x \in (DOMAIN r.base_adv_record) \X (0 .. (VAR_COLUMNS - 1)) :
                r.base_adv_record[x[1]][x[2]][2]}}
    \cup
    {CellNew(RangeChip, 0, row) :
       row \in {x \in DOMAIN r.range_adv_record : r.range_adv_record[x][2]}}

PairCells(perms) ==
    {perms[k][1] : k \in 1 .. Len(perms)} \cup {perms[k][2] : k \in 1 .. Len(perms)}

\* Every recorded pair names lane 0 when it names a range-unit cell, as the
\* handles returned by the range requests do.
RangeRefsLaneZero(perms) ==
    \A c \in PairCells(perms) : c.region = RangeChip => c.col = 0

\* C18 (as claimed): in every state reached by requests that completed
\* without a fault, whatever cells their references name, a cell's
\* needs_copy flag is set if and only if the cell occurs in a pair.
C18_FlagPairAgreementAsClaimed ==
    ~fault => FlaggedCells(records) = PairCells(records.permutations)

\* C18 (amended): in every state reached by requests that completed
\* without a fault and whose references to the range unit name lane 0, the
\* flagged cells are the cells that occur in a pair; a one_line or
\* one_line_with_last request appends one pair (referenced cell, new
\* placement) for each reference it takes, in order, and flags the cells of
\* those pairs and no other; a request with only literal values and a
\* range request append no pair and set no flag.
C18_FlagPairAgreement ==
    [][(~fault' /\ RangeRefsLaneZero(records'.permutations)) =>
         /\ FlaggedCells(records') = PairCells(records'.permutations)
         /\ (ncalls' = ncalls + 1 /\ last'.op \in {"one_line", "one_line_with_last"})
              => /\ records'.permutations = records.permutations \o NewPairs(last')
                 /\ FlaggedCells(records') =
                      FlaggedCells(records) \cup PairCells(NewPairs(last'))
         /\ (ncalls' = ncalls + 1 /\ last'.op \notin {"one_line", "one_line_with_last"})
              => /\ records'.permutations = records.permutations
                 /\ FlaggedCells(records') = FlaggedCells(records)]_vars

\* C18's case: a request that took a reference to a range-unit handle
\* completed, after which the flagged cells are the two cells of its pair.
C18_Witness ==
    /\ ~fault
    /\ last.op \in {"one_line", "one_line_with_last"}
    /\ NewPairs(last) # << >>
    /\ NewPairs(last)[1][1].region = RangeChip
    /\ RangeRefsLaneZero(records.permutations)
    /\ FlaggedCells(records) = PairCells(NewPairs(last))

\* C19 (as claimed): a one_line or one_line_with_last request with more
\* than MUL_COLUMNS product coefficients panics at that call and leaves the
\* ledger as it was, so that no product coefficient reaches the next-row
\* lane VAR_COLUMNS + MUL_COLUMNS or the constant lane after it.
C19_ProductCoefficientBound ==
    [][(/\ ncalls' = ncalls + 1
        /\ last'.op \in {"one_line", "one_line_with_last"}
        /\ Len(last'.mul_coeffs) > MUL_COLUMNS)
         => (fault' /\ records' = records)]_vars

(***************************************************************************)
(* Range blocks against each other, under SpecRange.                       *)
(***************************************************************************)

\* The range rows that hold a value.
ValueRows(r) ==
    {row \in DOMAIN r.range_adv_record : IsSome(r.range_adv_record[row][1])}

IsRangeRequest(req) ==
    req.op \in {"assign_range_value", "assign_single_range_value"}

\* The rows a request writes values to: the composite and one row per limb,
\* or the single row.
WrittenValueRows(req) ==
    IF req.op = "assign_range_value"
    THEN req.offset .. (req.offset + Len(req.chunks))
    ELSE {req.offset}

\* The rows a request may touch: a decomposition works on MAX_CHUNKS + 1
\* rows whatever the number of its limbs (the marker of line 397).
BlockRows(req) ==
    IF req.op = "assign_range_value"
    THEN req.offset .. (req.offset + MAX_CHUNKS)
    ELSE {req.offset}

\* Every row that held a value keeps it and its class marker, and a
\* composite row keeps its block-start marker 1.
EarlierRowsIntact ==
    \A row \in ValueRows(records) :
        /\ records'.range_adv_record[row][1] = records.range_adv_record[row][1]
        /\ records'.range_fix_record[row][1] = records.range_fix_record[row][1]
        /\ records.range_fix_record[row][0] = Some(1)
             => records'.range_fix_record[row][0] = Some(1)

\* What the returning request wrote is in place: its values, its
\* block-start marker and the class marker of its top row.
OwnRowsWritten(req) ==
    IF req.op = "assign_range_value"
    THEN /\ records'.range_adv_record[req.offset][1] = Some(req.v)
         /\ records'.range_fix_record[req.offset][0] = Some(1)
         /\ \A i \in 1 .. Len(req.chunks) :
              records'.range_adv_record[req.offset + i][1] = Some(req.chunks[i])
         /\ records'.range_fix_record[req.offset + Len(req.chunks)][1]
              = Some(req.leading_bits)
    ELSE /\ records'.range_adv_record[req.offset][1] = Some(req.v)
         /\ records'.range_fix_record[req.offset][1] = Some(req.leading_bits)

\* C20 as stated: a returning range request whose value rows
\* (step .. step + len(chunks), or the single row) are disjoint from the rows
\* that already hold a value leaves every such row its value and class marker
\* and every earlier composite row its block-start marker 1.
C20_DisjointValueRowsAsClaimed ==
    [][(/\ ncalls' = ncalls + 1
        /\ IsRangeRequest(last')
        /\ ~fault'
        /\ WrittenValueRows(last') \cap ValueRows(records) = {})
         => EarlierRowsIntact]_vars

\* C20, amended: a returning range request whose block (step .. step +
\* MAX_CHUNKS for a decomposition whatever its number of limbs, the single
\* row otherwise) is disjoint from the rows that already hold a value leaves
\* every such row its value, its class marker, and its block-start marker 1
\* if it is a composite row; and its own rows hold what it wrote.
C20_DisjointBlocksIntact ==
    [][(/\ ncalls' = ncalls + 1
        /\ IsRangeRequest(last')
        /\ ~fault'
        /\ BlockRows(last') \cap ValueRows(records) = {})
         => (EarlierRowsIntact /\ OwnRowsWritten(last'))]_vars

\* Two decompositions on disjoint blocks, the lower block requested second
\* with fewer limbs than MAX_CHUNKS: the upper block still stands.
C20_Witness ==
    /\ ~fault
    /\ ncalls = 2
    /\ last.op = "assign_range_value"
    /\ last.offset = 0
    /\ Len(last.chunks) = 1
    /\ records.range_fix_record[0][0] = Some(1)
    /\ records.range_fix_record[MAX_CHUNKS][0] = Some(0)
    /\ records.range_fix_record[MAX_CHUNKS + 1][0] = Some(1)
    /\ IsSome(records.range_adv_record[MAX_CHUNKS + 1][1])
    /\ IsSome(records.range_adv_record[MAX_CHUNKS + 2][1])

==========================================================================
